---------------------------- MODULE Spec2Model ----------------------------
(***************************************************************************)
(* Model of fpocketR_parser.py: a linear pipeline that runs the external   *)
(* pocket detector, selects the best pocket per metric, aggregates the     *)
(* pocket's geometry, packages the working tree and converts the summary   *)
(* CSVs to pseudo-PDB files.                                               *)
(*                                                                         *)
(* Spec     : the __main__ pipeline over an abstract file system.          *)
(* SpecSel  : the per-metric selection of get_best_pockets (idxmax).       *)
(* SpecAgg  : parse_pqr -> median/mean -> format_dataframe.                *)
(* SpecPdb  : csv_to_pdb's record and its fixed-column read-back.          *)
(***************************************************************************)
EXTENDS Integers, Sequences, FiniteSets, TLC

VARIABLES
    \* ---- pipeline (Spec) ----
    pc,         \* position of __main__
    env,        \* what the outside world does: conda, the tool's behaviour
    result,     \* return value of run_fpocketR: "unset","None","False","True"
    wt,         \* the working tree main_dir/fpocket-R
    cleanPdb,   \* main_dir/<name>_clean.pdb exists
    mainZip,    \* main_dir/fpocket-R.zip: [exists, entries]
    out,        \* the output location main_dir/fpocketr: [exists, csv, pdb, zip]
    cwd,        \* process working directory
    exc,        \* uncaught exception: [type, at]
    exitCode,   \* -1 while running, else the process exit code
    ran,        \* stages entered so far
    \* ---- selection (SpecSel) ----
    table,      \* characteristics table: sequence of rows
    pockets,    \* metric -> selected Pocket value (0: not selected yet)
    \* ---- aggregation (SpecAgg) ----
    pqr,        \* lines of the geometry file
    agg,        \* result of the loop body of get_best_pockets for one pocket
    \* ---- conversion (SpecPdb) ----
    csvRow,     \* one data line of a summary CSV: <<pocket_number, x, y, z>>
    pdbFile,    \* the lines csv_to_pdb wrote for it (sequences of characters)
    pdbSt       \* "init" | "written"

pipeVars == <<pc, env, result, wt, cleanPdb, mainZip, out, cwd, exc, exitCode, ran>>
selVars  == <<table, pockets>>
aggVars  == <<pqr, agg>>
pdbVars  == <<csvRow, pdbFile, pdbSt>>
nonPipe  == <<selVars, aggVars, pdbVars>>
vars == <<pipeVars, selVars, aggVars, pdbVars>>

(***************************************************************************)
(* Names                                                                   *)
(***************************************************************************)
Metrics == {"score", "drug_score", "sasa", "volume"}
Stats   == {"median", "mean"}
CsvNames == Metrics \X Stats            \* <metric>_<stat>.csv

NoTree == [exists |-> FALSE, cleanOut |-> FALSE, char |-> FALSE,
           pockets |-> FALSE, pqr |-> {}, csv |-> {}]

NoExc == [type |-> "none", at |-> "none"]

\* Files of the working tree, as paths relative to fpocket-R.
TreeFiles(t) ==
    IF ~t.exists THEN {}
    ELSE (IF t.char THEN {<<"clean_out", "characteristics.csv", "-">>} ELSE {})
         \cup {<<"pockets", "vert.pqr", m>> : m \in t.pqr}
         \cup {<<"pockets", n[1], n[2]>> : n \in t.csv}

\* Trees the external tool can leave behind (-o fpocket-R).  The tool writes
\* no CSV into pockets/; t.pqr is the set of metrics whose selected pocket has
\* a pocket<N>_vert.pqr file.
ToolTrees ==
    {t \in [exists : BOOLEAN, cleanOut : BOOLEAN, char : BOOLEAN,
            pockets : BOOLEAN, pqr : SUBSET Metrics, csv : {{}}] :
        /\ t.cleanOut => t.exists
        /\ t.char => t.cleanOut
        /\ t.pockets => t.cleanOut
        /\ t.pqr # {} => t.pockets}

Envs == [rerun : BOOLEAN,                   \* fpocketr holds an earlier run's results
         condaFound : BOOLEAN,
         rc : {0, 1},                       \* exit status of the subprocess
         sentinel : {"none", "stdout", "stderr"},
         tree : ToolTrees,
         cleanPdb : BOOLEAN]

\* Output location as left by an earlier successful run that had written the
\* summaries of the metrics in ms.
PriorOut(ms) ==
    [exists |-> TRUE,
     csv |-> [n \in CsvNames |-> IF n[1] \in ms THEN "old" ELSE "none"],
     pdb |-> [n \in CsvNames |-> IF n[1] \in ms THEN "old" ELSE "none"],
     zip |-> [gen |-> "old",
              entries |-> {<<"clean_out", "characteristics.csv", "-">>}
                          \cup {<<"pockets", "vert.pqr", m>> : m \in ms}]]

EmptyOut(e) ==
    [exists |-> e,
     csv |-> [n \in CsvNames |-> "none"],
     pdb |-> [n \in CsvNames |-> "none"],
     zip |-> [gen |-> "none", entries |-> {}]]

NoZip == [exists |-> FALSE, entries |-> {}]

(***************************************************************************)
(* Idle values of the variables a specification does not use               *)
(***************************************************************************)
PipeIdle ==
    /\ pc = "idle" /\ env = [rerun |-> FALSE, condaFound |-> FALSE, rc |-> 0,
                             sentinel |-> "none", tree |-> NoTree,
                             cleanPdb |-> FALSE]
    /\ result = "unset" /\ wt = NoTree /\ cleanPdb = FALSE /\ mainZip = NoZip
    /\ out = EmptyOut(FALSE) /\ cwd = "main" /\ exc = NoExc /\ exitCode = -1
    /\ ran = {}
SelIdle == table = <<>> /\ pockets = [m \in Metrics |-> 0]
AggIdle == pqr = <<>> /\ agg = [st |-> "init"]
PdbIdle == csvRow = <<0, 0, 0, 0>> /\ pdbFile = <<>> /\ pdbSt = "init"

(***************************************************************************)
(* __main__                                                                *)
(***************************************************************************)
PipeInit ==
    /\ pc = "main"
    /\ env \in Envs
    /\ result = "unset"
    \* a stale working tree of an earlier, aborted run may be there
    /\ wt \in {NoTree, [NoTree EXCEPT !.exists = TRUE]}
    /\ cleanPdb = FALSE
    /\ mainZip = NoZip
    /\ out \in IF env.rerun THEN {PriorOut(ms) : ms \in SUBSET Metrics}
                             ELSE {EmptyOut(FALSE)}
    /\ cwd = "main"
    /\ exc = NoExc
    /\ exitCode = -1
    /\ ran = {}

Raise(type, at) ==
    /\ exc' = [type |-> type, at |-> at]
    /\ exitCode' = 1
    /\ pc' = "done"

\* Faulty variant: the removal leaves the tree in place.
RmTreeKeeps(t) == t

\* lines 162, 232, 237: shutil.rmtree of the working tree
RmTree(t) == NoTree

\* lines 202-205: rm -r fpocket-R; makedirs(output_dir, exist_ok=True)
MainSetup ==
    /\ pc = "main"
    /\ wt' = NoTree
    /\ out' = [out EXCEPT !.exists = TRUE]
    /\ pc' = "run_fpocketR"
    /\ UNCHANGED <<env, result, cleanPdb, mainZip, cwd, exc, exitCode, ran, nonPipe>>

\* line 56: subprocess.run(...) is called without check=True, so a non-zero
\* exit status of the subprocess raises nothing.
RunRaisesCalledProcessError(rc) == FALSE

\* Faulty variant: only stdout is scanned for the sentinel.
SentinelStdoutOnly(s) == s = "stdout"

\* line 59
SentinelFound(s) == s = "stdout" \/ s = "stderr"

\* lines 45-65
RunFpocketRResult(e) ==
    IF ~e.condaFound THEN "None"
    ELSE IF RunRaisesCalledProcessError(e.rc) THEN "None"
    ELSE IF SentinelFound(e.sentinel) THEN "False"
    ELSE "True"

\* line 228: result = run_fpocketR(infile); the tool, when started, leaves
\* its tree and <name>_clean.pdb behind.
RunFpocketR ==
    /\ pc = "run_fpocketR"
    /\ result' = RunFpocketRResult(env)
    /\ IF env.condaFound
         THEN wt' = env.tree /\ cleanPdb' = env.cleanPdb
         ELSE UNCHANGED <<wt, cleanPdb>>
    /\ ran' = ran \cup {"run_fpocketR"}
    /\ pc' = "check_result"
    /\ UNCHANGED <<env, mainZip, out, cwd, exc, exitCode, nonPipe>>

\* lines 229-238: shutil.rmtree("fpocket-R", ignore_errors=True); exit(2)
ExitOnFailure ==
    /\ pc = "check_result"
    /\ result \in {"None", "False"}
    /\ wt' = RmTree(wt)
    /\ exitCode' = 2
    /\ pc' = "done"
    /\ UNCHANGED <<env, result, cleanPdb, mainZip, out, cwd, exc, ran, nonPipe>>

\* lines 242-244
Proceed ==
    /\ pc = "check_result"
    /\ result = "True"
    /\ pc' = "get_best_pockets"
    /\ UNCHANGED <<env, result, wt, cleanPdb, mainZip, out, cwd, exc, exitCode, ran, nonPipe>>

\* lines 92-100: the summaries written into pockets/, one pair per metric
\* whose pocket file exists.
SummariesFor(t) == {n \in CsvNames : n[1] \in t.pqr}

\* Faulty variant: the emptiness check of the glob result is dropped.
CsvFilesFoundAlways(t) == TRUE

\* lines 74-75: glob.glob('*characteristics.csv') is non-empty
CsvFilesFound(t) == t.char

\* lines 67-101.  Geometry files are taken to hold at least one well-formed
\* ATOM record here; the empty file is the subject of SpecAgg.
GetBestPockets ==
    /\ pc = "get_best_pockets"
    /\ ran' = ran \cup {"get_best_pockets"}
    /\ IF ~(wt.exists /\ wt.cleanOut)
         THEN \* lines 69-71
              /\ pc' = "move_and_compress_files"
              /\ UNCHANGED <<wt, cwd, exc, exitCode>>
         ELSE IF ~CsvFilesFound(wt)
         THEN \* lines 73-77
              /\ cwd' = "clean_out"
              /\ pc' = "move_and_compress_files"
              /\ UNCHANGED <<wt, exc, exitCode>>
         ELSE IF ~wt.pockets
         THEN \* line 90: os.chdir("./pockets") raises
              /\ cwd' = "clean_out"
              /\ Raise("FileNotFoundError", "get_best_pockets")
              /\ UNCHANGED wt
         ELSE /\ cwd' = "pockets"
              /\ wt' = [wt EXCEPT !.csv = SummariesFor(wt)]
              /\ pc' = "move_and_compress_files"
              /\ UNCHANGED <<exc, exitCode>>
    /\ UNCHANGED <<env, result, cleanPdb, mainZip, out, nonPipe>>

\* lines 129-136
MacfLocate ==
    /\ pc = "move_and_compress_files"
    /\ ran' = ran \cup {"move_and_compress_files"}
    /\ pc' = IF wt.exists /\ wt.cleanOut /\ wt.pockets
               THEN "macf_move_csv" ELSE "csv_to_pdb"
    /\ UNCHANGED <<env, result, wt, cleanPdb, mainZip, out, cwd, exc, exitCode, nonPipe>>

\* lines 139-145: an existing destination is removed, then the file is moved
MovedCsv(o, files) ==
    [o EXCEPT !.csv = [n \in CsvNames |-> IF n \in files THEN "new" ELSE o.csv[n]]]

MacfMoveCsv ==
    /\ pc = "macf_move_csv"
    /\ out' = MovedCsv(out, wt.csv)
    /\ wt' = [wt EXCEPT !.csv = {}]
    /\ ran' = ran \cup {"macf_move_csv"}
    /\ pc' = "macf_zip"
    /\ UNCHANGED <<env, result, cleanPdb, mainZip, cwd, exc, exitCode, nonPipe>>

\* Faulty variant: only the files directly under fpocket-R are archived (no walk).
ZipTopLevelOnly(t) == {f \in TreeFiles(t) : f[1] = "."}

\* lines 152-157: os.walk over the tree, arcname relative to fpocket-R
ZipEntries(t) == TreeFiles(t)

MacfZip ==
    /\ pc = "macf_zip"
    /\ mainZip' = [exists |-> TRUE, entries |-> ZipEntries(wt)]
    /\ ran' = ran \cup {"macf_zip"}
    /\ pc' = "macf_move_zip"
    /\ UNCHANGED <<env, result, wt, cleanPdb, out, cwd, exc, exitCode, nonPipe>>

\* line 160: shutil.move(zip_file, final_output_dir) with a directory as the
\* destination raises shutil.Error when <dir>/fpocket-R.zip already exists.
MoveIntoDirRaises(o) == o.zip.gen # "none"

MacfMoveZip ==
    /\ pc = "macf_move_zip"
    /\ ran' = ran \cup {"macf_move_zip"}
    /\ IF MoveIntoDirRaises(out)
         THEN /\ Raise("shutil.Error", "move_and_compress_files")
              /\ UNCHANGED <<out, mainZip>>
         ELSE /\ out' = [out EXCEPT !.zip = [gen |-> "new", entries |-> mainZip.entries]]
              /\ mainZip' = NoZip
              /\ pc' = "macf_rmtree"
              /\ UNCHANGED <<exc, exitCode>>
    /\ UNCHANGED <<env, result, wt, cleanPdb, cwd, nonPipe>>

\* line 162
MacfRmtree ==
    /\ pc = "macf_rmtree"
    /\ wt' = RmTree(wt)
    /\ ran' = ran \cup {"macf_rmtree"}
    /\ pc' = "macf_rm_clean"
    /\ UNCHANGED <<env, result, cleanPdb, mainZip, out, cwd, exc, exitCode, nonPipe>>

\* lines 163-164: os.remove(clean_pdb) raises when the file is missing
MacfRemoveClean ==
    /\ pc = "macf_rm_clean"
    /\ ran' = ran \cup {"macf_rm_clean"}
    /\ IF ~cleanPdb
         THEN /\ Raise("FileNotFoundError", "move_and_compress_files")
              /\ UNCHANGED cleanPdb
         ELSE /\ cleanPdb' = FALSE
              /\ pc' = "csv_to_pdb"
              /\ UNCHANGED <<exc, exitCode>>
    /\ UNCHANGED <<env, result, wt, mainZip, out, cwd, nonPipe>>

\* lines 167-199: every CSV of the output location gets a .pdb of its name
Converted(o) ==
    [o EXCEPT !.pdb = [n \in CsvNames |-> IF o.csv[n] # "none" THEN "new" ELSE o.pdb[n]]]

CsvToPdb ==
    /\ pc = "csv_to_pdb"
    /\ out' = Converted(out)
    /\ ran' = ran \cup {"csv_to_pdb"}
    /\ exitCode' = 0
    /\ pc' = "done"
    /\ UNCHANGED <<env, result, wt, cleanPdb, mainZip, cwd, exc, nonPipe>>

Init == PipeInit /\ SelIdle /\ AggIdle /\ PdbIdle

Next ==
    \/ MainSetup
    \/ RunFpocketR
    \/ ExitOnFailure
    \/ Proceed
    \/ GetBestPockets
    \/ MacfLocate
    \/ MacfMoveCsv
    \/ MacfZip
    \/ MacfMoveZip
    \/ MacfRmtree
    \/ MacfRemoveClean
    \/ CsvToPdb

Spec == Init /\ [][Next]_vars

(***************************************************************************)
(* get_best_pockets: selection of the best pocket per metric (SpecSel)     *)
(***************************************************************************)
MaxRows == 3
\* values a metric column takes in the tables explored (ties included)
MetricValues == {1, 2}

\* line 81: the column each metric reads
ColumnOf(m) ==
    CASE m = "score" -> "Score"
      [] m = "drug_score" -> "DrugScore"
      [] m = "sasa" -> "SASA"
      [] m = "volume" -> "Volume"

MetricRows == [Score : MetricValues, DrugScore : MetricValues,
               SASA : MetricValues, Volume : MetricValues]

\* line 80: the table read from the CSV; the Pocket column numbers the n
\* rows 1..n, ascending or descending.
ReadCsv(r, asc) ==
    [i \in 1..Len(r) |->
        [Pocket |-> IF asc THEN i ELSE Len(r) + 1 - i,
         Score |-> r[i].Score, DrugScore |-> r[i].DrugScore,
         SASA |-> r[i].SASA, Volume |-> r[i].Volume]]

\* Faulty variant: the scan keeps the last of several equal maxima.
RECURSIVE ArgMaxLastFrom(_, _, _)
ArgMaxLastFrom(col, i, best) ==
    IF i > Len(col) THEN best
    ELSE ArgMaxLastFrom(col, i + 1, IF col[i] >= col[best] THEN i ELSE best)
IdxMaxLast(col) == ArgMaxLastFrom(col, 2, 1)

\* Series.idxmax(): a left-to-right scan that replaces the running maximum
\* only by a strictly larger value; the result is the row label.
RECURSIVE ArgMaxFrom(_, _, _)
ArgMaxFrom(col, i, best) ==
    IF i > Len(col) THEN best
    ELSE ArgMaxFrom(col, i + 1, IF col[i] > col[best] THEN i ELSE best)

IdxMax(col) == ArgMaxFrom(col, 2, 1)

\* lines 83-88: relevant_data.loc[relevant_data[<column>].idxmax()]['Pocket']
BestPockets(df) ==
    [m \in Metrics |->
        df[IdxMax([i \in 1..Len(df) |-> df[i][ColumnOf(m)]])].Pocket]

SelInit ==
    /\ \E n \in 1..MaxRows, asc \in BOOLEAN :
          \E r \in [1..n -> MetricRows] : table = ReadCsv(r, asc)
    /\ pockets = [m \in Metrics |-> 0]

SelectPockets ==
    /\ table # <<>>
    /\ pockets = [m \in Metrics |-> 0]
    /\ pockets' = BestPockets(table)
    /\ UNCHANGED <<table, pipeVars, aggVars, pdbVars>>

InitSel == SelInit /\ PipeIdle /\ AggIdle /\ PdbIdle
NextSel == SelectPockets
SpecSel == InitSel /\ [][NextSel]_vars

\* C1: for every table with at least one row and each of the four metrics,
\* the selected identifier is the Pocket value of the row holding the
\* maximum of that metric's column, the first such row when several rows
\* share the maximum.
C1_MaxFirstOccurrence ==
    pockets # [m \in Metrics |-> 0] =>
      \A m \in Metrics :
        \E i \in 1..Len(table) :
          /\ pockets[m] = table[i].Pocket
          /\ \A j \in 1..Len(table) : table[j][ColumnOf(m)] <= table[i][ColumnOf(m)]
          /\ \A j \in 1..(i - 1) : table[j][ColumnOf(m)] < table[i][ColumnOf(m)]

\* a table whose Score maximum is shared by rows 2 and 3 while row 1 is lower
C1_Witness ==
    /\ Len(table) = 3
    /\ table[1].Score < table[2].Score /\ table[2].Score = table[3].Score
    /\ pockets # [m \in Metrics |-> 0]
    /\ pockets["score"] = table[2].Pocket
    /\ pockets["volume"] = table[1].Pocket

(***************************************************************************)
(* Text: strings are sequences of one-character strings                    *)
(***************************************************************************)
Digits == <<"0", "1", "2", "3", "4", "5", "6", "7", "8", "9">>
DigitChar(d) == Digits[d + 1]
IsDigit(c) == \E d \in 0..9 : Digits[d + 1] = c
DigitVal(c) == CHOOSE d \in 0..9 : Digits[d + 1] = c

\* decimal rendering of a natural number
RECURSIVE NatChars(_)
NatChars(n) ==
    IF n < 10 THEN <<DigitChar(n)>>
    ELSE Append(NatChars(n \div 10), DigitChar(n % 10))

\* f"{n:d}" of an integer
IntChars(n) == IF n < 0 THEN <<"-">> \o NatChars(-n) ELSE NatChars(n)

\* Faulty variant: the text is written without justification.
PadNone(cs, w) == cs

\* right-justification in a field of width w; a longer text is not cut
RECURSIVE PadLeft(_, _)
PadLeft(cs, w) == IF Len(cs) >= w THEN cs ELSE PadLeft(<<" ">> \o cs, w)

\* value of a digit string, most significant digit first
RECURSIVE DigitsVal(_)
DigitsVal(cs) ==
    IF cs = <<>> THEN 0
    ELSE 10 * DigitsVal(SubSeq(cs, 1, Len(cs) - 1)) + DigitVal(cs[Len(cs)])

\* str.strip() for blanks
RECURSIVE Strip(_)
Strip(cs) ==
    IF cs = <<>> THEN cs
    ELSE IF Head(cs) = " " THEN Strip(Tail(cs))
    ELSE IF cs[Len(cs)] = " " THEN Strip(SubSeq(cs, 1, Len(cs) - 1))
    ELSE cs

\* str.split(sep)
RECURSIVE Split(_, _)
Split(cs, sep) ==
    IF \A i \in 1..Len(cs) : cs[i] # sep THEN <<cs>>
    ELSE LET k == CHOOSE i \in 1..Len(cs) :
                    cs[i] = sep /\ \A j \in 1..(i - 1) : cs[j] # sep
         IN  <<SubSeq(cs, 1, k - 1)>> \o Split(SubSeq(cs, k + 1, Len(cs)), sep)

(***************************************************************************)
(* Numbers: a float is an exact fraction n/d (d > 0) of its column's unit; *)
(* coordinates are counted in thousandths.                                 *)
(***************************************************************************)
Abs(n) == IF n < 0 THEN -n ELSE n

\* nearest integer to a/d for a >= 0, ties to even
RoundHalfEven(a, d) ==
    LET q == a \div d
        r == a % d
    IN  IF 2 * r < d THEN q
        ELSE IF 2 * r > d THEN q + 1
        ELSE IF q % 2 = 0 THEN q ELSE q + 1

\* the digits of |value| rounded to k decimals, for a magnitude m counted in
\* units of 10^-k
RECURSIVE FracChars(_, _)
FracChars(m, k) ==
    IF k = 0 THEN <<>> ELSE Append(FracChars(m \div 10, k - 1), DigitChar(m % 10))

RECURSIVE Pow10(_)
Pow10(k) == IF k = 0 THEN 1 ELSE 10 * Pow10(k - 1)

\* Faulty variant: two decimals instead of three.
FormatFixed2(x) ==
    LET m == RoundHalfEven(Abs(x.n), x.d * 10)
    IN  (IF x.n < 0 THEN <<"-">> ELSE <<>>)
        \o NatChars(m \div 100) \o <<".">> \o FracChars(m % 100, 2)

\* f"{x:.3f}" of a coordinate x (thousandths): sign, integer digits, point,
\* three decimals; a negative value that rounds to zero keeps its sign.
FormatFixed3(x) ==
    LET m == RoundHalfEven(Abs(x.n), x.d)
    IN  (IF x.n < 0 THEN <<"-">> ELSE <<>>)
        \o NatChars(m \div 1000) \o <<".">> \o FracChars(m % 1000, 3)

\* float(text) for plain decimal text [-]digits.digits with at most three
\* decimals, in thousandths; anything else is a ValueError (ok = FALSE)
ParseFloat(text) ==
    LET cs   == Strip(text)
        neg  == cs # <<>> /\ Head(cs) = "-"
        body == IF neg THEN Tail(cs) ELSE cs
        parts == Split(body, ".")
        okShape == /\ Len(parts) \in {1, 2}
                   /\ parts[1] # <<>>
                   /\ \A i \in 1..Len(parts) : \A j \in 1..Len(parts[i]) : IsDigit(parts[i][j])
                   /\ Len(parts) = 2 => Len(parts[2]) <= 3
    IN  IF ~okShape THEN [ok |-> FALSE, v |-> 0]
        ELSE LET ip == DigitsVal(parts[1])
                 fr == IF Len(parts) = 2
                         THEN DigitsVal(parts[2]) * Pow10(3 - Len(parts[2])) ELSE 0
                 mag == ip * 1000 + fr
             IN  [ok |-> TRUE, v |-> IF neg THEN -mag ELSE mag]

\* int(text) for plain decimal text
ParseInt(text) ==
    LET cs   == Strip(text)
        neg  == cs # <<>> /\ Head(cs) = "-"
        body == IF neg THEN Tail(cs) ELSE cs
    IN  IF body = <<>> \/ \E j \in 1..Len(body) : ~IsDigit(body[j])
          THEN [ok |-> FALSE, v |-> 0]
          ELSE [ok |-> TRUE, v |-> IF neg THEN -DigitsVal(body) ELSE DigitsVal(body)]

(***************************************************************************)
(* parse_pqr, median/mean, format_dataframe (SpecAgg)                      *)
(***************************************************************************)
MaxLines == 4

\* Lines of a geometry file: ATOM records <pocket, x, y, z> (coordinates in
\* thousandths) and other lines.
AtomLines ==
    {[atom |-> TRUE, pocket |-> a[1], x |-> a[2], y |-> a[3], z |-> a[4]] :
        a \in {<<1, -1500, 1001, 0>>, <<1, 2000, 1002, -1>>,
               <<2, 12345, -999999, 7>>, <<4, -1, 250, 9999999>>}}
OtherLine == [atom |-> FALSE, pocket |-> 0, x |-> 0, y |-> 0, z |-> 0]
PqrFiles == UNION {[1..n -> AtomLines \cup {OtherLine}] : n \in 0..MaxLines}

Columns == {"pocket_number", "x", "y", "z"}

\* lines 110-120: one row per line that starts with ATOM
RECURSIVE ParsePqr(_)
ParsePqr(lines) ==
    IF lines = <<>> THEN <<>>
    ELSE LET l == Head(lines)
         IN  (IF l.atom
                THEN <<[pocket_number |-> l.pocket, x |-> l.x, y |-> l.y, z |-> l.z]>>
                ELSE <<>>) \o ParsePqr(Tail(lines))

\* the values of column c in ascending order
RECURSIVE SortedSeq(_)
SortedSeq(vals) ==
    IF vals = <<>> THEN <<>>
    ELSE LET k == CHOOSE i \in 1..Len(vals) : \A j \in 1..Len(vals) : vals[i] <= vals[j]
         IN  <<vals[k]>> \o SortedSeq([i \in 1..(Len(vals) - 1) |->
                                          IF i < k THEN vals[i] ELSE vals[i + 1]])

RECURSIVE SumSeq(_)
SumSeq(vals) == IF vals = <<>> THEN 0 ELSE Head(vals) + SumSeq(Tail(vals))

Column(df, c) == [i \in 1..Len(df) |-> df[i][c]]

NaN == [t |-> "float", nan |-> TRUE, n |-> 0, d |-> 1]
Float(n, d) == [t |-> "float", nan |-> FALSE, n |-> n, d |-> d]

\* DataFrame.median(): per column; NaN for a frame without rows
MedianOf(vals) ==
    LET s == SortedSeq(vals)
        k == Len(s)
    IN  IF k = 0 THEN NaN
        ELSE IF k % 2 = 1 THEN Float(s[(k + 1) \div 2], 1)
        ELSE Float(s[k \div 2] + s[k \div 2 + 1], 2)

\* DataFrame.mean(): per column; NaN for a frame without rows
MeanOf(vals) == IF Len(vals) = 0 THEN NaN ELSE Float(SumSeq(vals), Len(vals))

\* lines 96-97: <series>.to_frame().T is a frame of one row
ToFrameT(series) == <<series>>
Median(df) == ToFrameT([c \in Columns |-> MedianOf(Column(df, c))])
Mean(df) == ToFrameT([c \in Columns |-> MeanOf(Column(df, c))])

\* astype(int) of a float: truncation towards zero
AsInt(x) == [t |-> "int", v |-> IF x.n < 0 THEN -((-x.n) \div x.d) ELSE x.n \div x.d]

\* line 107: the formatted value is a string
FormatCell(x) == [t |-> "str", s |-> FormatFixed3(x)]

\* lines 103-108; astype(int) raises on NaN (raised = TRUE, frame untouched)
FormatDataframe(df) ==
    IF \E i \in 1..Len(df) : df[i]["pocket_number"].nan
      THEN [raised |-> TRUE, df |-> df]
      ELSE [raised |-> FALSE,
            df |-> [i \in 1..Len(df) |->
                     [c \in Columns |->
                        IF c = "pocket_number" THEN AsInt(df[i][c])
                        ELSE IF df[i][c].t = "float" THEN FormatCell(df[i][c])
                        ELSE df[i][c]]]]

AggInit ==
    /\ pqr \in PqrFiles
    /\ agg = [st |-> "init"]

\* lines 95-98, for one existing pocket file
Aggregate ==
    /\ agg.st = "init"
    /\ LET df_pocket == ParsePqr(pqr)
           median_df == FormatDataframe(Median(df_pocket))
           mean_df   == FormatDataframe(Mean(df_pocket))
       IN  agg' = IF median_df.raised
                    THEN [st |-> "raised", type |-> "ValueError"]
                    ELSE IF mean_df.raised
                    THEN [st |-> "raised", type |-> "ValueError"]
                    ELSE [st |-> "done", median |-> median_df.df, mean |-> mean_df.df]
    /\ UNCHANGED <<pqr, pipeVars, selVars, pdbVars>>

InitAgg == AggInit /\ PipeIdle /\ SelIdle /\ PdbIdle
NextAgg == Aggregate
SpecAgg == InitAgg /\ [][NextAgg]_vars

NumAtoms == Cardinality({i \in 1..Len(pqr) : pqr[i].atom})

\* a text [-]digits.ddd: exactly three digits after the decimal point
ThreeDecimals(cs) ==
    LET body == IF cs # <<>> /\ Head(cs) = "-" THEN Tail(cs) ELSE cs
        k == Len(body)
    IN  /\ k >= 5
        /\ body[k - 3] = "."
        /\ \A j \in 1..k : j # k - 3 => IsDigit(body[j])

\* a summary frame: one row, integer pocket_number, x/y/z three-decimal text
SummaryShape(df) ==
    /\ Len(df) = 1
    /\ df[1]["pocket_number"].t = "int"
    /\ \A c \in {"x", "y", "z"} : df[1][c].t = "str" /\ ThreeDecimals(df[1][c].s)

\* C5 (as claimed): for every number N of ATOM records, N = 0 included, the
\* median and the mean summary each are one row with an integer
\* pocket_number and x, y, z as strings with exactly three decimals.
C5_SummaryShapeAnyN ==
    agg.st # "init" =>
      agg.st = "done" /\ SummaryShape(agg.median) /\ SummaryShape(agg.mean)

\* C5 (amended): for every geometry file with N >= 1 ATOM records, files
\* with more than one pocket identifier included, the median and the mean
\* summary each are one row with an integer pocket_number and x, y, z as
\* strings with exactly three decimals; with N = 0 format_dataframe raises
\* and no summary is produced.
C5_SummaryShape ==
    agg.st # "init" =>
      IF NumAtoms >= 1
        THEN agg.st = "done" /\ SummaryShape(agg.median) /\ SummaryShape(agg.mean)
        ELSE agg.st = "raised"

\* four records, two pocket identifiers, a median between two values
C5_Witness ==
    /\ agg.st = "done" /\ NumAtoms = 4 /\ Len(pqr) = 4
    /\ \E i, j \in 1..4 : pqr[i].pocket # pqr[j].pocket
    /\ agg.median[1]["x"].s # agg.mean[1]["x"].s
    /\ \E c \in {"x", "y", "z"} : Head(agg.mean[1][c].s) = "-"

(***************************************************************************)
(* csv_to_pdb (SpecPdb)                                                    *)
(***************************************************************************)
SerialWidth == 5
CoordWidth == 8

\* Rows of a summary CSV: pocket_number, and x, y, z in thousandths
\* (already rounded to three decimals).
PocketNumbers == {1, 12, 99999, 100000}
CoordValues == {0, -1, 12345, -999999, 9999999, -1000000, -1000001, 10000000}
CsvRows == PocketNumbers \X CoordValues \X CoordValues \X CoordValues

CsvHeader == <<"p", "o", "c", "k", "e", "t", "_", "n", "u", "m", "b", "e", "r", ",", "x", ",", "y", ",", "z">>

\* lines 99-100: DataFrame.to_csv(index=False) of a formatted summary
CsvLine(row) ==
    IntChars(row[1]) \o <<",">> \o FormatFixed3([n |-> row[2], d |-> 1])
      \o <<",">> \o FormatFixed3([n |-> row[3], d |-> 1])
      \o <<",">> \o FormatFixed3([n |-> row[4], d |-> 1])
CsvFile(row) == <<CsvHeader, CsvLine(row)>>

\* line 194: the literal parts of the record
RecordName == <<"H", "E", "T", "A", "T", "M">>
AtomResidue == <<" ", " ", "X", "E", " ", " ", "P", "C", "K", " ", "A", " ", " ", " ", "1", " ", " ", " ", " ">>
OccupancyTail == <<" ", " ", "1", ".", "0", "0", " ", "9", "6", ".", "2", "4", " ", " ", " ", " ", " ", " ", " ", " ", " ", " ", " ", "X", "e">>

\* line 194: f"{v:8.3f}" and f"{n:5d}"
FormatCoord(v) == PadLeft(FormatFixed3([n |-> v, d |-> 1]), CoordWidth)
FormatSerial(n) == PadLeft(IntChars(n), SerialWidth)

\* lines 192-194, for one CSV line; raised when int() or float() fails
HetatmRecord(line) ==
    LET f == Split(Strip(line), ",")
    IN  IF Len(f) # 4 THEN [raised |-> TRUE, text |-> <<>>]
        ELSE LET pocket_number == ParseInt(f[1])
                 x == ParseFloat(f[2])
                 y == ParseFloat(f[3])
                 z == ParseFloat(f[4])
             IN  IF ~(pocket_number.ok /\ x.ok /\ y.ok /\ z.ok)
                   THEN [raised |-> TRUE, text |-> <<>>]
                   ELSE [raised |-> FALSE,
                         text |-> RecordName \o FormatSerial(pocket_number.v)
                                  \o AtomResidue
                                  \o FormatCoord(x.v) \o FormatCoord(y.v) \o FormatCoord(z.v)
                                  \o OccupancyTail]

\* lines 186-197: the header is skipped, one record per line, then TER, END
RECURSIVE Records(_)
Records(lines) ==
    IF lines = <<>> THEN <<>>
    ELSE <<HetatmRecord(Head(lines))>> \o Records(Tail(lines))

PdbInit ==
    /\ csvRow \in CsvRows
    /\ pdbFile = <<>>
    /\ pdbSt = "init"

ConvertCsv ==
    /\ pdbSt = "init"
    /\ LET recs == Records(Tail(CsvFile(csvRow)))
       IN  IF \E i \in 1..Len(recs) : recs[i].raised
             THEN pdbSt' = "raised" /\ pdbFile' = <<>>
             ELSE /\ pdbSt' = "written"
                  /\ pdbFile' = [i \in 1..Len(recs) |-> recs[i].text]
                                  \o << <<"T", "E", "R">>, <<"E", "N", "D">> >>
    /\ UNCHANGED <<csvRow, pipeVars, selVars, aggVars>>

InitPdb == PdbInit /\ PipeIdle /\ SelIdle /\ AggIdle
NextPdb == ConvertCsv
SpecPdb == InitPdb /\ [][NextPdb]_vars

\* Fixed-column reading of a record: serial in columns 7-11, x, y, z in
\* columns 31-38, 39-46, 47-54.
ReadBack(line) ==
    <<ParseInt(SubSeq(line, 7, 11)), ParseFloat(SubSeq(line, 31, 38)),
      ParseFloat(SubSeq(line, 39, 46)), ParseFloat(SubSeq(line, 47, 54))>>

RoundTrips ==
    /\ Len(pdbFile) = 3
    /\ SubSeq(pdbFile[1], 1, 6) = RecordName
    /\ \A k \in 1..4 : ReadBack(pdbFile[1])[k] = [ok |-> TRUE, v |-> csvRow[k]]

\* the serial fits 5 characters and every coordinate's rendering fits 8
FitsColumns ==
    /\ csvRow[1] >= 0 /\ csvRow[1] <= 99999
    /\ \A k \in 2..4 : csvRow[k] >= -999999 /\ csvRow[k] <= 9999999

\* C6 (as claimed): for every summary row, the HETATM record read back by
\* its fixed columns yields the same pocket_number, x, y, z, also for
\* values whose three-decimal rendering needs more than 8 characters.
C6_RoundTripAnyValue == pdbSt = "written" => RoundTrips

\* C6 (amended): for every summary row whose pocket_number has at most 5
\* digits and whose coordinates each render in at most 8 characters
\* (-999.999 .. 9999.999), negative values included, the HETATM record read
\* back by its fixed columns yields the same pocket_number, x, y, z.
C6_RoundTripFits == (pdbSt # "init" /\ FitsColumns) => (pdbSt = "written" /\ RoundTrips)

C6_Witness ==
    /\ pdbSt = "written" /\ FitsColumns /\ RoundTrips
    /\ csvRow = <<99999, -999999, 9999999, -1>>

(***************************************************************************)
(* Properties of the pipeline (checked under Spec)                         *)
(***************************************************************************)
Done == pc = "done"
LaterStages == {"get_best_pockets", "move_and_compress_files", "csv_to_pdb"}
SentinelInOutput == env.condaFound /\ env.sentinel \in {"stdout", "stderr"}
ToolExecutionFailed == ~env.condaFound \/ env.rc # 0
\* the summaries get_best_pockets writes for the tree the tool left
NewSummaries ==
    IF env.tree.char /\ env.tree.pockets
      THEN {n \in CsvNames : n[1] \in env.tree.pqr} ELSE {}
\* the files the tool itself put into the tree
ToolFiles ==
    (IF env.tree.char THEN {<<"clean_out", "characteristics.csv", "-">>} ELSE {})
    \cup {<<"pockets", "vert.pqr", m>> : m \in env.tree.pqr}

\* C2 (as claimed): the process exits with 2 on detection failure and on
\* tool-execution failure (executable not found, or the subprocess failed),
\* with 0 in every other run, and no run whose tool execution failed reaches
\* parsing, packaging or conversion.
C2_ExitCodeContract ==
    /\ ToolExecutionFailed =>
          /\ pc \in {"main", "run_fpocketR", "check_result", "done"}
          /\ ran \cap LaterStages = {}
    /\ Done => exitCode = (IF ToolExecutionFailed \/ SentinelInOutput THEN 2 ELSE 0)

\* C3: whenever the sentinel occurs in the tool's stdout or stderr, the run
\* ends with exit code 2, fpocket-R does not exist at exit, and none of
\* get_best_pockets, move_and_compress_files, csv_to_pdb is executed.
C3_SentinelExit ==
    SentinelInOutput =>
      /\ ran \cap LaterStages = {}
      /\ Done => exitCode = 2 /\ ~wt.exists

C3_Witness ==
    /\ Done /\ env.condaFound /\ env.sentinel = "stderr" /\ env.rc = 0
    /\ env.tree.exists /\ env.tree.pockets /\ exitCode = 2

\* the target directory exists and holds no *characteristics.csv when
\* get_best_pockets has been called
CharMissingCase ==
    /\ "get_best_pockets" \in ran
    /\ env.tree.exists /\ env.tree.cleanOut /\ ~env.tree.char

C7_PackagingOrder ==
    LET csvMoved == wt.csv = {} /\ \A n \in NewSummaries : out.csv[n] = "new"
        archived == out.zip = [gen |-> "new", entries |-> ToolFiles]
    IN  /\ "macf_zip" \in ran =>
              /\ csvMoved
              /\ pc = "macf_move_zip" => mainZip = [exists |-> TRUE, entries |-> ToolFiles]
        /\ "macf_rmtree" \in ran => archived /\ ~mainZip.exists /\ ~wt.exists
        /\ ("move_and_compress_files" \in ran /\ ~wt.exists /\ env.tree.pockets)
              => archived
        /\ ("macf_rm_clean" \in ran /\ exc = NoExc) =>
              csvMoved /\ archived /\ ~wt.exists /\ ~cleanPdb

C7_Witness ==
    /\ pc = "csv_to_pdb" /\ "macf_rm_clean" \in ran /\ exc = NoExc
    /\ env.tree.char /\ env.tree.pqr = Metrics
    /\ out.zip.gen = "new" /\ \A n \in CsvNames : out.csv[n] = "new"

\* C8 (as claimed): after the tool invocation a missing directory or file
\* leads to a message and an early return or a skipped step, never to an
\* exception propagated to the caller.
C8_MissingNeverRaises == exc.type # "FileNotFoundError"

\* an earlier run's results are in the output location and this run's tool
\* invocation succeeded and left a complete tree
SuccessfulRerun ==
    /\ env.rerun /\ env.condaFound /\ env.rc = 0 /\ env.sentinel = "none"
    /\ env.tree.char /\ env.tree.pockets /\ env.cleanPdb

\* C9 (as claimed): when fpocketr already holds an earlier run's summaries
\* and fpocket-R.zip, a later successful run's move_and_compress_files
\* completes without error, replaces every pre-existing file of the same
\* name by the new run's, and deletes the tree and <name>_clean.pdb.
C9_RerunReplaces ==
    (SuccessfulRerun /\ Done) =>
      /\ exc = NoExc
      /\ out.zip.gen = "new"
      /\ \A n \in NewSummaries : out.csv[n] = "new"
      /\ ~wt.exists /\ ~cleanPdb

\* C10 (as claimed): on every run that ends without an uncaught exception
\* (exit 2 or exit 0), fpocket-R does not exist at exit.
C10_NoTreeAtExit == (Done /\ exitCode \in {0, 2}) => ~wt.exists

\* C10 (amended): on both exit-2 paths, and on every exit-0 path on which
\* move_and_compress_files found the pockets directory, fpocket-R does not
\* exist at exit; on the exit-0 paths where move_and_compress_files returns
\* early, fpocket-R is left behind exactly when the tool had created it.
C10_TreeAtExit ==
    (Done /\ exitCode \in {0, 2}) =>
      (wt.exists <=> (exitCode = 0 /\ env.tree.exists /\ ~env.tree.pockets))

C10_Witness ==
    /\ Done /\ exitCode = 0 /\ "macf_rmtree" \in ran /\ ~wt.exists
    /\ env.tree.exists

=============================================================================
